---- MODULE Spec2Model ----
(***************************************************************************)
(* Model of src/app.py: the GitHub webhook -> Telegram relay.              *)
(*                                                                         *)
(* One POST /github request is followed from receipt to response through   *)
(* the steps of github_webhook: header check, signature verification,      *)
(* JSON parsing, event classification, the per-commit delivery loop and    *)
(* the final response.  A Python exception is modelled by what the handler *)
(* that catches it does (the inner and outer try blocks, or Flask's        *)
(* default 500 for an exception raised outside any try).                   *)
(***************************************************************************)
EXTENDS Integers, Sequences, FiniteSets, TLC

\* Longest commits list of a push payload.
MaxCommits == 2

\* Python's None, and the marker of a key that a JSON object does not have.
None == "<None>"
Absent == "<absent>"
\* A JSON value of the wrong type for its place (null, a number or a string
\* where an object is expected, ...): calling .get or .split on it raises.
Bad == "<bad>"
\* An "author" object that has no "name" key.
NoName == "<noname>"

VARIABLES
    TELEGRAM_BOT_TOKEN,     \* configuration, loaded at startup
    TELEGRAM_CHAT_ID,
    GITHUB_WEBHOOK_SECRET,
    request,                \* the request being handled
    pc,                     \* position of the handler
    i,                      \* index of the loop over commits
    results,                \* the results list of the push branch
    deliveries,             \* one entry per call of send_telegram_message
    verifyCalls,            \* calls of verify_github_signature for the request
    eventRead,              \* the X-GitHub-Event header has been read
    response,               \* the HTTP response, NoResponse until sent
    endpoint,               \* how the messaging endpoint answers the next call
    parked,                 \* the locals of a second handler that is not running
    probe                   \* input and output of a function applied on its own

config == <<TELEGRAM_BOT_TOKEN, TELEGRAM_CHAT_ID, GITHUB_WEBHOOK_SECRET>>
vars == <<TELEGRAM_BOT_TOKEN, TELEGRAM_CHAT_ID, GITHUB_WEBHOOK_SECRET,
          request, pc, i, results, deliveries, verifyCalls, eventRead, response,
          endpoint, parked, probe>>
others == <<parked, probe>>

----------------------------------------------------------------------------
(* Python helpers *)

\* bool(v) of an Optional[str]
Truthy(v) == v # None /\ v # ""

\* s.split(sep) on a string given as a sequence of characters
RECURSIVE split(_, _)
split(s, sep) ==
    IF \A k \in 1..Len(s) : s[k] # sep
    THEN <<s>>
    ELSE LET k == CHOOSE k \in 1..Len(s) :
                      s[k] = sep /\ \A j \in 1..(k - 1) : s[j] # sep
         IN  <<SubSeq(s, 1, k - 1)>> \o split(SubSeq(s, k + 1, Len(s)), sep)

\* d.get(key, default) for a key that is Absent or carries a value
get(v, default) == IF v = Absent THEN default ELSE v

----------------------------------------------------------------------------
(* Inputs *)

TokenValues == {None, "tok"}
ChatValues == {"", "chat"}
SecretValues == {None, "", "s1"}
EventValues == {Absent, "ping", "push", "issues"}

\* the value under "ref": absent, a string (refs/heads/main, shortened), or
\* a value that is no string
NoRef == [t |-> Absent, s |-> <<>>]
RefMain == [t |-> "str", s |-> <<"r", "/", "h", "/", "m">>]
BadRef == [t |-> Bad, s |-> <<>>]

CommitA == [t |-> "obj", id |-> "a", author |-> "alice", message |-> "fix", url |-> "http://c/a"]
CommitB == [t |-> "obj", id |-> "b", author |-> "bob", message |-> "add", url |-> "http://c/b"]
CommitBare == [t |-> "obj", id |-> Absent, author |-> Absent, message |-> Absent, url |-> Absent]
CommitBadAuthor == [t |-> "obj", id |-> "c", author |-> Bad, message |-> "m", url |-> Absent]
CommitNotObject == [t |-> Bad, id |-> Absent, author |-> Absent, message |-> Absent, url |-> Absent]
CommitValues == {CommitA, CommitB, CommitBare, CommitBadAuthor, CommitNotObject}

\* a commit whose author name and message hold characters of the Markdown
\* markup ('_', '*', '[')
CommitMarkup ==
    [t |-> "obj", id |-> "d", author |-> "a_[b]", message |-> "fix *all* [x]_",
     url |-> "http://c/d"]

\* the commit objects with every subset of id, author, author name, message
\* and url absent
FieldCommitValues ==
    [t : {"obj"}, id : {Absent, "a"}, author : {Absent, NoName, "alice"},
     message : {Absent, "fix"}, url : {Absent, "http://c/a"}]

RECURSIVE SeqsUpTo(_, _)
SeqsUpTo(S, n) ==
    IF n = 0 THEN {<<>>}
    ELSE LET shorter == SeqsUpTo(S, n - 1)
         IN  shorter \cup {Append(s, x) : s \in {q \in shorter : Len(q) = n - 1}, x \in S}

\* the value under "commits": absent, null, a number, or a list
CommitsValues ==
    {[t |-> k, items |-> <<>>] : k \in {Absent, "null", "num"}}
    \cup {[t |-> "list", items |-> s] : s \in SeqsUpTo(CommitValues, MaxCommits)}
    \cup {[t |-> "list", items |-> <<c>>] : c \in FieldCommitValues \cup {CommitMarkup}}

\* top-level fields of an object payload: the well-formed one, the empty one,
\* and the ones that differ from the well-formed one in one field being
\* absent or of the wrong type.  "repository" and "pusher" objects are given
\* by their name.
NoTop == [repository |-> Absent, ref |-> NoRef, pusher |-> Absent, zen |-> Absent]
TopOk == [repository |-> "repo", ref |-> RefMain, pusher |-> "pusher", zen |-> Absent]
TopValues ==
    {TopOk, NoTop, [NoTop EXCEPT !.zen = "zen"],
     [TopOk EXCEPT !.repository = Absent], [TopOk EXCEPT !.repository = Bad],
     [TopOk EXCEPT !.ref = NoRef], [TopOk EXCEPT !.ref = BadRef],
     [TopOk EXCEPT !.pusher = Absent], [TopOk EXCEPT !.pusher = Bad]}

NoCommits == [t |-> Absent, items |-> <<>>]

\* what request.get_json() makes of the body: "unparseable" when it raises
\* (BadRequest for text that is no JSON), a scalar or an array (None, which
\* it returns for a body it does not take for JSON, is "null"), or an object
\* with its fields.  The record also stands for the raw bytes that are signed.
ScalarKinds == {"unparseable", "null", "false", "zero", "emptystr", "emptylist",
                "true", "num", "str", "list"}
BodyValues ==
    {[t |-> k, top |-> NoTop, commits |-> NoCommits] : k \in ScalarKinds}
    \cup {[t |-> "obj", top |-> top, commits |-> c] : top \in TopValues, c \in CommitsValues}

AltBody == [t |-> "null", top |-> NoTop, commits |-> NoCommits]

\* HMAC-SHA256 as an injective function of (key, message)
Hmac(key, msg) == [key |-> key, msg |-> msg]
NoMac == Hmac("-", AltBody)

\* 'sha256=' + hexdigest
Sha256Header(mac) == [t |-> "sha256", mac |-> mac]

\* the X-Hub-Signature-256 header: absent, empty, text without the prefix,
\* text with a non-ASCII character, or 'sha256=' + a hex digest
SignatureValues(body) ==
    {[t |-> k, mac |-> NoMac] : k \in {Absent, "empty", "garbage", "nonascii"}}
    \cup {Sha256Header(m) : m \in {Hmac("s1", body), Hmac("s1", AltBody), Hmac("", body)}}

NoRequest == [sig |-> [t |-> Absent, mac |-> NoMac], event |-> Absent, body |-> AltBody]

\* what requests.post and raise_for_status end in
NetOutcomes == {"ok", "http_error", "network_error", "timeout"}

\* what the messaging endpoint does with a call: answers 2xx, answers an
\* error status, refuses the connection, or never answers
EndpointBehaviours == {"ok", "http_error", "network_error", "silent"}
Unused == "<unused>"

----------------------------------------------------------------------------
(* Responses *)

NoResponse == [code |-> 0, status |-> "", reason |-> <<>>, results |-> <<>>,
               repo |-> None, branch |-> <<>>, zen |-> ""]

abort(code, text) == [NoResponse EXCEPT !.code = code, !.status = "abort", !.reason = <<text>>]

ignored(reason) == [NoResponse EXCEPT !.code = 200, !.status = "ignored", !.reason = reason]

----------------------------------------------------------------------------
(* verify_github_signature *)

IsAscii(header) == header.t # "nonascii"

\* hmac.compare_digest on two str: TypeError unless both are ASCII
compare_digest(a, b) ==
    IF ~IsAscii(a) \/ ~IsAscii(b) THEN "TypeError"
    ELSE IF a = b THEN "True" ELSE "False"

verify_trust_all(payload_body, signature_header) ==
    IF ~Truthy(GITHUB_WEBHOOK_SECRET) THEN "True"
    ELSE compare_digest(Sha256Header(Hmac(GITHUB_WEBHOOK_SECRET, payload_body)),
                        signature_header)

verify_github_signature(payload_body, signature_header) ==
    IF ~Truthy(GITHUB_WEBHOOK_SECRET) THEN "False"
    ELSE compare_digest(Sha256Header(Hmac(GITHUB_WEBHOOK_SECRET, payload_body)),
                        signature_header)

----------------------------------------------------------------------------
(* send_telegram_message *)

send_ignoring_status(text, net) ==
    IF ~(Truthy(TELEGRAM_BOT_TOKEN) /\ Truthy(TELEGRAM_CHAT_ID))
    THEN [ret |-> FALSE, posts |-> 0]
    ELSE [ret |-> net \in {"ok", "http_error"}, posts |-> 1]

send_retrying(text, net) ==
    IF ~(Truthy(TELEGRAM_BOT_TOKEN) /\ Truthy(TELEGRAM_CHAT_ID))
    THEN [ret |-> FALSE, posts |-> 0]
    ELSE [ret |-> net = "ok", posts |-> IF net = "ok" THEN 1 ELSE 2]

post_without_timeout(behaviour) == behaviour # "silent"

\* requests.post(..., timeout=10) comes back, with a response or an exception
post_returns(behaviour) == TRUE

\* what the call ends in: Timeout (a RequestException) after 10 seconds when
\* the endpoint never answers
post_outcome(behaviour) == IF behaviour = "silent" THEN "timeout" ELSE behaviour

\* the value returned and the number of calls of requests.post, where net is
\* what the one call ends in
send_telegram_message(text, net) ==
    IF ~(Truthy(TELEGRAM_BOT_TOKEN) /\ Truthy(TELEGRAM_CHAT_ID))
    THEN [ret |-> FALSE, posts |-> 0]
    ELSE [ret |-> net = "ok", posts |-> 1]

----------------------------------------------------------------------------
(* github_webhook: the conditions of its steps *)

MissingOnlyWhenAbsent(signature) == signature.t = Absent

EmptyOnlyWhenNone(data) == data.t = "null"

EmptyOnlyForScalars(data) == data.t \in {"null", "false", "zero", "emptystr"}

\* not signature
MissingSignature(signature) == signature.t \in {Absent, "empty"}

\* request.get_json() raises
GetJsonRaises(body) == body.t = "unparseable"

\* not data
EmptyPayload(data) ==
    \/ data.t \in {"null", "false", "zero", "emptystr", "emptylist"}
    \/ data.t = "obj" /\ data.top = NoTop /\ data.commits.t = Absent

\* data.get(...) raises AttributeError
NotAnObject(data) == data.t # "obj"

\* lines 120-123 raise
PushFieldsRaise(data) ==
    \/ NotAnObject(data)
    \/ data.top.ref.t = Bad
    \/ data.top.pusher = Bad

event_type_no_default(event) == event

\* request.headers.get('X-GitHub-Event', 'unknown')
event_type_of(event) == get(event, "unknown")

NoCommitsOnlyWhenAbsent(commits) == commits.t = Absent

\* not commits
NoCommitsIn(commits) ==
    \/ commits.t \in {Absent, "null"}
    \/ commits.t = "list" /\ commits.items = <<>>

\* data.get('ref', '').split('/')[-1]
branch(data) ==
    LET ref == IF data.top.ref.t = Absent THEN <<>> ELSE data.top.ref.s
        parts == split(ref, "/")
    IN  parts[Len(parts)]

FormatRaisesOnMissingAuthor(repo, commit) ==
    \/ repo = Bad
    \/ commit.t = Bad
    \/ commit.author \in {Bad, Absent, NoName}

\* commit.get('author', {}).get('name', 'Unknown')
author_name(author) == IF author \in {Absent, NoName} THEN "Unknown" ELSE author

\* the f-string of lines 132-140 raises
FormatRaises(repo, commit) ==
    \/ repo = Bad
    \/ commit.t = Bad
    \/ commit.author = Bad

\* the f-string of lines 132-140
format_message(repo, commit, br) ==
    [repo |-> get(repo, "Unnamed Repository"),
     author |-> author_name(commit.author),
     branch |-> br,
     message |-> get(commit.message, "No message"),
     url |-> get(commit.url, "#")]

commit_at_reversed(commits, idx) == commits[Len(commits) + 1 - idx]

\* for commit in commits: the commit of iteration idx
commit_at(commits, idx) == commits[idx]

\* commit.get('id')
commit_id(commit) == get(commit.id, None)

advance_until_failure(idx, status) ==
    IF status = "sent" THEN idx + 1 ELSE idx + MaxCommits + 1

\* for commit in commits: the next commit, whatever became of this one
advance(idx, status) == idx + 1

----------------------------------------------------------------------------
(* github_webhook: its steps *)

\* the locals of github_webhook and its request context
handler_locals ==
    [request |-> request, pc |-> pc, i |-> i, results |-> results,
     deliveries |-> deliveries, verifyCalls |-> verifyCalls, eventRead |-> eventRead,
     response |-> response, endpoint |-> endpoint]

NoParked ==
    [request |-> NoRequest, pc |-> "absent", i |-> 1, results |-> <<>>,
     deliveries |-> <<>>, verifyCalls |-> 0, eventRead |-> FALSE,
     response |-> NoResponse, endpoint |-> Unused]

NoProbe == [path |-> "", result |-> ""]

Init ==
    /\ TELEGRAM_BOT_TOKEN \in TokenValues
    /\ TELEGRAM_CHAT_ID \in ChatValues
    /\ GITHUB_WEBHOOK_SECRET \in SecretValues
    /\ request = NoRequest
    /\ pc = "idle"
    /\ i = 1
    /\ results = <<>>
    /\ deliveries = <<>>
    /\ verifyCalls = 0
    /\ eventRead = FALSE
    /\ response = NoResponse
    /\ endpoint = Unused
    /\ parked = NoParked
    /\ probe = NoProbe

Respond(r) ==
    /\ response' = r
    /\ pc' = "responded"

\* the response has been sent: the locals of the call are gone
Return ==
    /\ pc = "responded"
    /\ pc' = "idle"
    /\ request' = NoRequest
    /\ i' = 1
    /\ results' = <<>>
    /\ deliveries' = <<>>
    /\ verifyCalls' = 0
    /\ eventRead' = FALSE
    /\ response' = NoResponse
    /\ endpoint' = Unused
    /\ UNCHANGED <<config, others>>

\* github_webhook is called for a request
Accept(req) ==
    /\ pc = "idle"
    /\ request' = req
    /\ pc' = "received"
    /\ i' = 1
    /\ results' = <<>>
    /\ deliveries' = <<>>
    /\ verifyCalls' = 0
    /\ eventRead' = FALSE
    /\ response' = NoResponse
    /\ UNCHANGED <<config, endpoint, others>>

\* a request arrives
Receive ==
    /\ pc = "idle"
    /\ \E body \in BodyValues, event \in EventValues :
         \E sig \in SignatureValues(body) :
            Accept([sig |-> sig, event |-> event, body |-> body])

\* lines 94-97
CheckSignatureHeader ==
    /\ pc = "received"
    /\ IF MissingSignature(request.sig)
       THEN Respond(abort(400, "Missing signature header"))
       ELSE pc' = "verify" /\ UNCHANGED response
    /\ UNCHANGED <<config, request, i, results, deliveries, verifyCalls, eventRead,
                   endpoint, others>>

\* lines 99-101; a TypeError of compare_digest is caught by nothing
VerifySignature ==
    /\ pc = "verify"
    /\ verifyCalls' = verifyCalls + 1
    /\ LET ok == verify_github_signature(request.body, request.sig)
       IN  CASE ok = "True" -> pc' = "parse" /\ UNCHANGED response
             [] ok = "False" -> Respond(abort(403, "Invalid signature"))
             [] OTHER -> Respond(abort(500, "Internal Server Error"))
    /\ UNCHANGED <<config, request, i, results, deliveries, eventRead, endpoint, others>>

\* lines 105-108, and 161-163 when get_json raises
ParseBody ==
    /\ pc = "parse"
    /\ CASE GetJsonRaises(request.body) -> Respond(abort(500, "Internal server error"))
         [] EmptyPayload(request.body) /\ ~GetJsonRaises(request.body) ->
                Respond(ignored(<<"Empty payload">>))
         [] OTHER -> pc' = "classify" /\ UNCHANGED response
    /\ UNCHANGED <<config, request, i, results, deliveries, verifyCalls, eventRead,
                   endpoint, others>>

\* lines 110-127 and 158-159, and 161-163 when one of them raises
Classify ==
    /\ pc = "classify"
    /\ eventRead' = TRUE
    /\ LET data == request.body
           event_type == event_type_of(request.event)
       IN  CASE event_type = "ping" ->
                    IF NotAnObject(data)
                    THEN Respond(abort(500, "Internal server error"))
                    ELSE Respond([NoResponse EXCEPT !.code = 200, !.status = "pong",
                                                    !.zen = get(data.top.zen, "")])
             [] event_type = "push" ->
                    IF PushFieldsRaise(data)
                    THEN Respond(abort(500, "Internal server error"))
                    ELSE IF NoCommitsIn(data.commits)
                    THEN Respond(ignored(<<"No commits">>))
                    ELSE IF data.commits.t # "list"
                    THEN Respond(abort(500, "Internal server error"))
                    ELSE pc' = "loop" /\ UNCHANGED response
             [] OTHER -> Respond(ignored(<<"Unhandled event type", event_type>>))
    /\ endpoint' \in IF pc' = "loop" THEN EndpointBehaviours ELSE {endpoint}
    /\ UNCHANGED <<config, request, i, results, deliveries, verifyCalls, others>>

\* one iteration of the loop, lines 130-149
ProcessCommit ==
    /\ pc = "loop"
    /\ i <= Len(request.body.commits.items)
    /\ LET data == request.body
           commit == commit_at(data.commits.items, i)
       IN  IF FormatRaises(data.top.repository, commit)
           THEN \* lines 147-149: the handler calls commit.get again
                IF commit.t = Bad
                THEN /\ Respond(abort(500, "Internal server error"))
                     /\ UNCHANGED <<i, results, deliveries>>
                ELSE /\ results' = Append(results, [commit_id |-> commit_id(commit),
                                                    status |-> "error"])
                     /\ i' = advance(i, "error")
                     /\ UNCHANGED <<pc, response, deliveries>>
           ELSE   LET message == format_message(data.top.repository, commit, branch(data))
                      net == post_outcome(endpoint)
                      sent == send_telegram_message(message, net)
                      status == IF sent.ret THEN "sent" ELSE "failed"
                  IN  /\ sent.posts > 0 => post_returns(endpoint)
                      /\ deliveries' = Append(deliveries,
                            [text |-> message, posts |-> sent.posts, ret |-> sent.ret,
                             net |-> IF sent.posts = 0 THEN "none" ELSE net])
                      /\ results' = Append(results,
                            [commit_id |-> commit_id(commit), status |-> status])
                      /\ i' = advance(i, status)
                      /\ UNCHANGED <<pc, response>>
    /\ endpoint' \in IF pc' = "loop" /\ i' <= Len(request.body.commits.items)
                     THEN EndpointBehaviours ELSE {Unused}
    /\ UNCHANGED <<config, request, verifyCalls, eventRead, others>>

\* lines 151-156, and 161-163 when repo.get raises
RespondProcessed ==
    /\ pc = "loop"
    /\ i > Len(request.body.commits.items)
    /\ LET data == request.body
       IN  IF data.top.repository = Bad
           THEN Respond(abort(500, "Internal server error"))
           ELSE Respond([NoResponse EXCEPT !.code = 200, !.status = "processed",
                                           !.repo = get(data.top.repository, None),
                                           !.branch = branch(data),
                                           !.results = results])
    /\ UNCHANGED <<config, request, i, results, deliveries, verifyCalls, eventRead,
                   endpoint, others>>

Next ==
    \/ Receive
    \/ CheckSignatureHeader
    \/ VerifySignature
    \/ ParseBody
    \/ Classify
    \/ ProcessCommit
    \/ RespondProcessed
    \/ Return

Spec == Init /\ [][Next]_vars

\* the steps of github_webhook once it has been called; the worker that runs
\* it is scheduled fairly
HandlerStep ==
    \/ CheckSignatureHeader
    \/ VerifySignature
    \/ ParseBody
    \/ Classify
    \/ ProcessCommit
    \/ RespondProcessed

\* started with a secret, with and without the credentials of the messaging
\* endpoint: the configurations under which a request gets to the loop
LiveInit ==
    /\ Init
    /\ GITHUB_WEBHOOK_SECRET = "s1"
    /\ TELEGRAM_CHAT_ID = "chat"

LiveSpec == LiveInit /\ [][Next]_vars /\ WF_vars(HandlerStep)

-----------------------------------------------------------------------------
(* verify_github_signature applied on its own *)

handler == <<request, pc, i, results, deliveries, verifyCalls, eventRead, response,
             endpoint>>

\* raw bodies that are signed
ProbeBodies == {[t |-> k, top |-> NoTop, commits |-> NoCommits] : k \in ScalarKinds}

\* The header 'sha256=' + hexdigest with one byte replaced.  The byte is in
\* the prefix or in the digest; the byte written is another hex digit, another
\* ASCII character, or a byte above 0x7F, which the header carries as a
\* non-ASCII character.  A digest with another hex digit is the digest of no
\* (secret, body) pair at hand.
ByteKinds == {"hex", "ascii", "nonascii"}
ChangeHeaderByte(header, where, byte) ==
    IF byte = "nonascii" THEN [t |-> "nonascii", mac |-> NoMac]
    ELSE IF where = "digest" /\ byte = "hex" THEN Sha256Header(NoMac)
    ELSE [t |-> "garbage", mac |-> NoMac]

\* the sender signs a body with the shared secret
Sign ==
    /\ probe.path = ""
    /\ Truthy(GITHUB_WEBHOOK_SECRET)
    /\ \E body \in ProbeBodies :
         probe' = [path |-> "verify", body |-> body,
                   header |-> Sha256Header(Hmac(GITHUB_WEBHOOK_SECRET, body)),
                   changed |-> "none", result |-> ""]
    /\ UNCHANGED <<config, handler, parked>>

\* one byte of the body changes on the way: the bytes are another body
ChangeBody ==
    /\ probe.path = "verify"
    /\ probe.changed = "none"
    /\ probe.result = ""
    /\ \E body \in ProbeBodies \ {probe.body} :
         probe' = [probe EXCEPT !.body = body, !.changed = "body"]
    /\ UNCHANGED <<config, handler, parked>>

\* one byte of the signature header changes on the way
ChangeHeader ==
    /\ probe.path = "verify"
    /\ probe.changed = "none"
    /\ probe.result = ""
    /\ \E where \in {"prefix", "digest"}, byte \in ByteKinds :
         probe' = [probe EXCEPT !.header = ChangeHeaderByte(probe.header, where, byte),
                                !.changed = "header"]
    /\ UNCHANGED <<config, handler, parked>>

\* lines 24-33
Verify ==
    /\ probe.path = "verify"
    /\ probe.result = ""
    /\ probe' = [probe EXCEPT !.result = verify_github_signature(probe.body, probe.header)]
    /\ UNCHANGED <<config, handler, parked>>

Forget ==
    /\ probe.path = "verify"
    /\ probe.result # ""
    /\ probe' = NoProbe
    /\ UNCHANGED <<config, handler, parked>>

VerifyNext ==
    \/ Sign
    \/ ChangeBody
    \/ ChangeHeader
    \/ Verify
    \/ Forget

VerifySpec == Init /\ [][VerifyNext]_vars

-----------------------------------------------------------------------------
(* health_check and deep_health_check *)

\* jsonify of a bool
json_bool(b) == IF b THEN "true" ELSE "false"

\* lines 63-71, the timestamp aside
health_check ==
    [status |-> "running", service |-> "github-webhook",
     telegram |-> Absent, github_webhook |-> Absent]

deep_health_showing_secret ==
    [status |-> "healthy", service |-> Absent,
     telegram |-> json_bool(Truthy(TELEGRAM_BOT_TOKEN) /\ Truthy(TELEGRAM_CHAT_ID)),
     github_webhook |-> IF Truthy(GITHUB_WEBHOOK_SECRET) THEN GITHUB_WEBHOOK_SECRET
                        ELSE "false"]

\* lines 76-84, the timestamps aside
deep_health_check ==
    [status |-> "healthy", service |-> Absent,
     telegram |-> json_bool(Truthy(TELEGRAM_BOT_TOKEN) /\ Truthy(TELEGRAM_CHAT_ID)),
     github_webhook |-> json_bool(Truthy(GITHUB_WEBHOOK_SECRET))]

\* what os.getenv may give: nothing (unset, or set to the empty string), or
\* one of two values
EnvValues(nothing, name) == {nothing, name, name \o "-2"}

\* the process is started with an environment
Startup ==
    /\ TELEGRAM_BOT_TOKEN' \in EnvValues(None, "tok")
    /\ TELEGRAM_CHAT_ID' \in EnvValues("", "chat")
    /\ GITHUB_WEBHOOK_SECRET' \in EnvValues(None, "s1")
    /\ UNCHANGED <<handler, parked, probe>>

\* probe keeps the last two responses with the configuration they came from
Answered(path, result) ==
    /\ Len(probe) < 2
    /\ probe' = Append(probe, [path |-> path, config |-> config, result |-> result])
    /\ UNCHANGED <<config, handler, parked>>

GetRoot == Answered("/", health_check)

GetHealth == Answered("/health", deep_health_check)

ForgetAnswers ==
    /\ Len(probe) = 2
    /\ probe' = <<>>
    /\ UNCHANGED <<config, handler, parked>>

HealthInit ==
    /\ TELEGRAM_BOT_TOKEN \in EnvValues(None, "tok")
    /\ TELEGRAM_CHAT_ID \in EnvValues("", "chat")
    /\ GITHUB_WEBHOOK_SECRET \in EnvValues(None, "s1")
    /\ request = NoRequest
    /\ pc = "idle"
    /\ i = 1
    /\ results = <<>>
    /\ deliveries = <<>>
    /\ verifyCalls = 0
    /\ eventRead = FALSE
    /\ response = NoResponse
    /\ endpoint = Unused
    /\ parked = NoParked
    /\ probe = <<>>

HealthNext ==
    \/ Startup
    \/ GetRoot
    \/ GetHealth
    \/ ForgetAnswers

HealthSpec == HealthInit /\ [][HealthNext]_vars

-----------------------------------------------------------------------------
(* two calls of github_webhook at a time *)

shared_results(own, current) == current

\* results = [] is a local of the call: a handler that resumes finds its own
own_results(own, current) == own

\* the running handler is suspended and the other one resumes; the globals
\* (the configuration) are the ones both see
Switch ==
    /\ parked.pc # "absent"
    /\ parked' = handler_locals
    /\ request' = parked.request
    /\ pc' = parked.pc
    /\ i' = parked.i
    /\ results' = own_results(parked.results, results)
    /\ deliveries' = parked.deliveries
    /\ verifyCalls' = parked.verifyCalls
    /\ eventRead' = parked.eventRead
    /\ response' = parked.response
    /\ endpoint' = parked.endpoint
    /\ UNCHANGED <<config, probe>>

\* the requests that arrive while two are handled: pushes of two commits and
\* of one, a ping, an empty payload, and a request without signature header
PushOf(commits) ==
    [t |-> "obj", top |-> TopOk, commits |-> [t |-> "list", items |-> commits]]
PairRequests ==
    {[sig |-> Sha256Header(Hmac("s1", body)), event |-> "push", body |-> body] :
        body \in {PushOf(<<CommitA, CommitB>>), PushOf(<<CommitB>>), AltBody}}
    \cup {[sig |-> Sha256Header(Hmac("s1", PushOf(<<>>))), event |-> "ping",
           body |-> PushOf(<<>>)],
          [sig |-> [t |-> Absent, mac |-> NoMac], event |-> "push",
           body |-> PushOf(<<CommitA>>)]}

PairReceive ==
    /\ pc = "idle"
    /\ \E req \in PairRequests : Accept(req)

\* started with a secret and a chat identifier, with a second worker idle
PairInit ==
    /\ TELEGRAM_BOT_TOKEN \in TokenValues
    /\ TELEGRAM_CHAT_ID = "chat"
    /\ GITHUB_WEBHOOK_SECRET = "s1"
    /\ request = NoRequest
    /\ pc = "idle"
    /\ i = 1
    /\ results = <<>>
    /\ deliveries = <<>>
    /\ verifyCalls = 0
    /\ eventRead = FALSE
    /\ response = NoResponse
    /\ endpoint = Unused
    /\ parked = [NoParked EXCEPT !.pc = "idle"]
    /\ probe = NoProbe

PairNext ==
    \/ PairReceive
    \/ CheckSignatureHeader
    \/ VerifySignature
    \/ ParseBody
    \/ Classify
    \/ ProcessCommit
    \/ RespondProcessed
    \/ Return
    \/ Switch

PairSpec == PairInit /\ [][PairNext]_vars

----------------------------------------------------------------------------
(* The request, as the claims speak of it *)

Responded == pc = "responded"

HeaderPresent == request.sig.t \notin {Absent, "empty"}

\* the header is 'sha256=' + HMAC-SHA256(configured secret, raw body)
SignatureMatches ==
    /\ request.sig.t = "sha256"
    /\ request.sig.mac.key = GITHUB_WEBHOOK_SECRET
    /\ request.sig.mac.msg = request.body

SecretConfigured == GITHUB_WEBHOOK_SECRET \notin {None, ""}

\* the request passes signature verification
Verified == SecretConfigured /\ SignatureMatches

Parseable == request.body.t # "unparseable"

\* the body parses to {}, [], null, 0, false or ""
FalsyBody ==
    \/ request.body.t \in {"null", "false", "zero", "emptystr", "emptylist"}
    \/ request.body = [t |-> "obj", top |-> NoTop, commits |-> NoCommits]

ObjectBody == request.body.t = "obj"

\* the top-level fields that are present have the types of a push payload
WellShapedTop ==
    /\ ObjectBody
    /\ request.body.top.repository # Bad
    /\ request.body.top.ref.t # Bad
    /\ request.body.top.pusher # Bad

Commits == request.body.commits.items

\* the commits field is a list of N >= 1 commit objects
HasCommitObjects ==
    /\ request.body.commits.t = "list"
    /\ Len(Commits) >= 1
    /\ \A k \in 1..Len(Commits) : Commits[k].t = "obj"

CredentialsPresent ==
    /\ TELEGRAM_BOT_TOKEN \notin {None, ""}
    /\ TELEGRAM_CHAT_ID \notin {None, ""}

RECURSIVE TotalPosts(_)
TotalPosts(log) == IF log = <<>> THEN 0 ELSE log[1].posts + TotalPosts(Tail(log))

----------------------------------------------------------------------------
(* Claims *)

\* C1: a request whose signature header is present and is not
\* 'sha256=' + HMAC-SHA256(secret, body) is answered 403, and no delivery
\* call is made for it at any point.
C1_InvalidSignatureIs403 ==
    (pc # "idle" /\ HeaderPresent /\ ~SignatureMatches)
        => /\ deliveries = <<>>
           /\ Responded => response.code = 403

\* C2: a request whose signature header is absent or empty is answered 400
\* whatever the secret, body and event type are; verify_github_signature is
\* never called for it and no delivery call is made.
C2_MissingSignatureIs400 ==
    (pc # "idle" /\ ~HeaderPresent)
        => /\ pc \in {"received", "responded"}
           /\ verifyCalls = 0
           /\ deliveries = <<>>
           /\ Responded => response.code = 400

C2_Witness ==
    /\ Responded
    /\ request.sig.t = "empty"
    /\ SecretConfigured
    /\ request.event = "push"
    /\ HasCommitObjects
    /\ response.code = 400

\* C3: a request that passes verification and whose body cannot be parsed as
\* JSON is answered 400, with no delivery call.
C3_UnparseableIs400 ==
    (Responded /\ Verified /\ ~Parseable)
        => /\ response.code = 400
           /\ deliveries = <<>>

\* C4, as claimed: without a configured secret verification lets every
\* request with a signature header through, so none is answered 403.
C4_TrustAllWithoutSecret ==
    (Responded /\ ~SecretConfigured /\ HeaderPresent) => response.code # 403

\* C4, amended: without a configured secret verify_github_signature returns
\* false for every body and header, so a request with a signature header is
\* answered 403 at once: it is never parsed or classified and nothing is
\* delivered.
C4_RejectAllWithoutSecret ==
    (~SecretConfigured /\ pc # "idle" /\ HeaderPresent)
        => /\ pc \in {"received", "verify", "responded"}
           /\ ~eventRead
           /\ deliveries = <<>>
           /\ Responded => response.code = 403

C4_Witness ==
    /\ Responded
    /\ GITHUB_WEBHOOK_SECRET = ""
    /\ SignatureMatches
    /\ request.event = "ping"
    /\ response.code = 403

\* C5, as claimed: a verified ping request with a parseable body is answered
\* 200 'pong' with no delivery call, whatever the body holds.
C5_PingIsAlwaysPong ==
    (Responded /\ Verified /\ Parseable /\ request.event = "ping")
        => /\ response.code = 200
           /\ response.status = "pong"
           /\ deliveries = <<>>

\* C5, amended: a verified ping request with a parseable body never leads to
\* a delivery call; it is answered 200 'pong' with the zen text (or '') when
\* the body is a non-empty object, whatever its commits field is; 200
\* 'ignored'/'Empty payload' when the body is empty or falsy; and 500 when
\* the body is a non-empty value that is no object.
C5_PingByBody ==
    (Responded /\ Verified /\ Parseable /\ request.event = "ping")
        => /\ deliveries = <<>>
           /\ (ObjectBody /\ ~FalsyBody) =>
                /\ response.code = 200
                /\ response.status = "pong"
                /\ response.zen = IF request.body.top.zen = Absent THEN ""
                                  ELSE request.body.top.zen
           /\ FalsyBody =>
                /\ response.code = 200
                /\ response.status = "ignored"
                /\ response.reason = <<"Empty payload">>
           /\ (~ObjectBody /\ ~FalsyBody) => response.code = 500

C5_Witness ==
    /\ Responded
    /\ Verified
    /\ request.event = "ping"
    /\ HasCommitObjects
    /\ CredentialsPresent
    /\ response.status = "pong"

\* C6, as claimed: a verified push request whose payload object has no
\* commits field, or an empty commits list, is answered 200 'ignored' with
\* the reason 'No commits'; no results are built and no delivery call made.
C6_PushWithoutCommitsIsNoCommits ==
    (Responded /\ Verified /\ request.event = "push" /\ WellShapedTop
        /\ (request.body.commits.t = Absent
            \/ (request.body.commits.t = "list" /\ Commits = <<>>)))
        => /\ response.code = 200
           /\ response.status = "ignored"
           /\ response.reason = <<"No commits">>
           /\ results = <<>>
           /\ deliveries = <<>>

\* C6, amended: a verified push request whose payload object has no commits
\* field, a null one or an empty commits list builds no results and makes no
\* delivery call; it is answered 200 'ignored'/'Empty payload' when the
\* object is empty, 500 when its ref is no string or its pusher no object,
\* and 200 'ignored'/'No commits' otherwise.
C6_PushWithoutCommits ==
    (Responded /\ Verified /\ request.event = "push" /\ ObjectBody
        /\ (request.body.commits.t \in {Absent, "null"}
            \/ (request.body.commits.t = "list" /\ Commits = <<>>)))
        => /\ results = <<>>
           /\ response.results = <<>>
           /\ deliveries = <<>>
           /\ FalsyBody =>
                /\ response.code = 200
                /\ response.status = "ignored"
                /\ response.reason = <<"Empty payload">>
           /\ (request.body.top.ref.t = Bad \/ request.body.top.pusher = Bad) =>
                response.code = 500
           /\ (~FalsyBody /\ request.body.top.ref.t # Bad /\ request.body.top.pusher # Bad) =>
                /\ response.code = 200
                /\ response.status = "ignored"
                /\ response.reason = <<"No commits">>

C6_Witness ==
    /\ Responded
    /\ Verified
    /\ request.event = "push"
    /\ request.body.top = TopOk
    /\ request.body.commits.t = "list"
    /\ Commits = <<>>
    /\ CredentialsPresent
    /\ response.reason = <<"No commits">>

\* C7, as claimed: a verified request with a parseable body and an event
\* type other than ping and push (an absent header reads 'unknown') is
\* answered 200 'ignored' with a reason that names the event type, with no
\* delivery call.
C7_UnhandledEventNamesType ==
    (Responded /\ Verified /\ Parseable /\ request.event \notin {"ping", "push"})
        => /\ response.code = 200
           /\ response.status = "ignored"
           /\ response.reason = <<"Unhandled event type",
                                  IF request.event = Absent THEN "unknown"
                                  ELSE request.event>>
           /\ deliveries = <<>>

\* C7, amended: such a request is answered 200 'ignored' with no delivery
\* call and no results, never with an error status; the reason names the
\* event type when the body is a non-empty JSON value, and is 'Empty payload'
\* when the body is empty or falsy.
C7_UnhandledEvent ==
    (Responded /\ Verified /\ Parseable /\ request.event \notin {"ping", "push"})
        => /\ response.code = 200
           /\ response.status = "ignored"
           /\ response.results = <<>>
           /\ results = <<>>
           /\ deliveries = <<>>
           /\ ~FalsyBody =>
                response.reason = <<"Unhandled event type",
                                    IF request.event = Absent THEN "unknown"
                                    ELSE request.event>>
           /\ FalsyBody => response.reason = <<"Empty payload">>

C7_Witness ==
    /\ Responded
    /\ Verified
    /\ request.event = Absent
    /\ HasCommitObjects
    /\ CredentialsPresent
    /\ response.reason = <<"Unhandled event type", "unknown">>

\* C8: for a verified push request with N >= 1 commit objects (and top-level
\* fields of the expected types), whatever the deliveries end in: each
\* iteration adds one entry, the loop goes through all N commits, and the
\* response is 200 with exactly N results, the k-th carrying the id of the
\* k-th commit of the payload; a delivery is attempted for every commit whose
\* message could be formatted.
C8_EveryCommitHasItsResult ==
    (Verified /\ request.event = "push" /\ WellShapedTop /\ HasCommitObjects)
        => /\ pc = "loop" =>
                /\ i \in 1..(Len(Commits) + 1)
                /\ Len(results) = i - 1
           /\ pc \in {"loop", "responded"} =>
                /\ \A k \in 1..Len(results) :
                      results[k].commit_id = IF Commits[k].id = Absent THEN None
                                             ELSE Commits[k].id
                /\ Len(deliveries) =
                      Cardinality({k \in 1..Len(results) : Commits[k].author # Bad})
           /\ Responded =>
                /\ response.code = 200
                /\ response.status = "processed"
                /\ response.results = results
                /\ Len(response.results) = Len(Commits)

C8_Witness ==
    /\ Responded
    /\ Verified
    /\ Commits = <<CommitB, CommitA>>
    /\ response.results = <<[commit_id |-> "b", status |-> "failed"],
                            [commit_id |-> "a", status |-> "sent"]>>

\* C9: for a verified push request with N >= 1 commit objects (and top-level
\* fields of the expected types) the response is 200 whatever the deliveries
\* end in, and the status of each commit is 'sent' when its delivery call
\* ended in success and 'failed' when it ended in an HTTP error status, a
\* network failure or a timeout, or was refused for missing credentials.
C9_StatusIsDeliveryOutcome ==
    (Responded /\ Verified /\ request.event = "push" /\ WellShapedTop
        /\ HasCommitObjects /\ \A k \in 1..Len(Commits) : Commits[k].author # Bad)
        => /\ response.code = 200
           /\ Len(response.results) = Len(Commits)
           /\ Len(deliveries) = Len(Commits)
           /\ \A k \in 1..Len(Commits) :
                /\ response.results[k].status \in {"sent", "failed"}
                /\ response.results[k].status = "sent"
                      <=> (CredentialsPresent /\ deliveries[k].net = "ok")
                /\ response.results[k].status = "failed"
                      <=> (~CredentialsPresent
                           \/ deliveries[k].net \in {"http_error", "network_error", "timeout"})

C9_Witness ==
    /\ Responded
    /\ Verified
    /\ Len(Commits) = 2
    /\ Len(deliveries) = 2
    /\ deliveries[1].net = "ok"
    /\ deliveries[2].net = "http_error"
    /\ response.code = 200
    /\ response.results[1].status = "sent"
    /\ response.results[2].status = "failed"

\* C10: a call of send_telegram_message makes no outbound request and
\* returns failure when the token or the chat id is missing, and makes
\* exactly one otherwise, also when that one fails; so the requests made for
\* one webhook request never outnumber the commits the loop has gone through.
C10_OnePostPerCall ==
    /\ \A k \in 1..Len(deliveries) :
          /\ ~CredentialsPresent => (deliveries[k].posts = 0 /\ ~deliveries[k].ret)
          /\ CredentialsPresent => deliveries[k].posts = 1
    /\ Len(deliveries) > 0 => request.body.commits.t = "list"
    /\ TotalPosts(deliveries) <= Len(deliveries)
    /\ Len(deliveries) <= Len(Commits)
    /\ pc = "loop" => Len(deliveries) <= i - 1

C10_Witness ==
    /\ Responded
    /\ CredentialsPresent
    /\ Len(Commits) = 2
    /\ Len(deliveries) = 2
    /\ deliveries[1].net = "timeout"
    /\ deliveries[2].net = "network_error"
    /\ TotalPosts(deliveries) = 2

\* C11: whenever the response is not 200 (400, 403 or 500), no delivery call
\* has been made for the request.
C11_ErrorMeansNoDelivery ==
    (Responded /\ response.code # 200) => deliveries = <<>>

\* C12: in a verified push request with top-level fields of the expected
\* types, a commit object with any of id, author, author name, message and
\* url absent is formatted with the placeholders 'Unknown', 'No message' and
\* '#', a delivery is attempted for it, and its status is 'sent' or 'failed',
\* never 'error'.
C12_AbsentFieldsGetPlaceholders ==
    (Verified /\ request.event = "push" /\ WellShapedTop /\ HasCommitObjects
        /\ \A k \in 1..Len(Commits) : Commits[k].author # Bad
        /\ pc \in {"loop", "responded"})
        => /\ Len(deliveries) = Len(results)
           /\ Responded => Len(results) = Len(Commits)
           /\ \A k \in 1..Len(results) :
                /\ results[k].status \in {"sent", "failed"}
                /\ results[k].commit_id =
                      IF Commits[k].id = Absent THEN None ELSE Commits[k].id
                /\ deliveries[k].text.author =
                      IF Commits[k].author \in {Absent, NoName} THEN "Unknown"
                      ELSE Commits[k].author
                /\ deliveries[k].text.message =
                      IF Commits[k].message = Absent THEN "No message"
                      ELSE Commits[k].message
                /\ deliveries[k].text.url =
                      IF Commits[k].url = Absent THEN "#" ELSE Commits[k].url

C12_Witness ==
    /\ Responded
    /\ Verified
    /\ Commits = <<CommitBare>>
    /\ Len(deliveries) = 1
    /\ deliveries[1].text = [repo |-> "repo", author |-> "Unknown", branch |-> <<"m">>,
                             message |-> "No message", url |-> "#"]
    /\ response.results = <<[commit_id |-> None, status |-> "sent"]>>

\* C14, the neutralisation part: a character of the chat markup in a commit's
\* message, author name or repository name never reaches the delivery client
\* raw.
MarkupTexts == {CommitMarkup.author, CommitMarkup.message}

C14_MarkupNeverRaw ==
    \A k \in 1..Len(deliveries) :
        /\ deliveries[k].text.message \notin MarkupTexts
        /\ deliveries[k].text.author \notin MarkupTexts
        /\ deliveries[k].text.repo \notin MarkupTexts

\* C18: the delivery calls of a push request are issued in payload order: a
\* call is made only by the iteration of commit i, after the results of
\* commits 1..i-1 have been recorded, it carries the message formatted from
\* commit i, and its own result is recorded with it; the calls already made
\* are kept in their order; when commits 1..i are all formatted, the call is
\* the i-th call.
C18_DeliveriesInPayloadOrder ==
    [][Len(deliveries') > Len(deliveries) =>
        /\ pc = "loop"
        /\ i \in 1..Len(Commits)
        /\ Len(results) = i - 1
        /\ Len(results') = i
        /\ Len(deliveries') = Len(deliveries) + 1
        /\ SubSeq(deliveries', 1, Len(deliveries)) = deliveries
        /\ deliveries'[Len(deliveries')].text =
              format_message(request.body.top.repository, Commits[i], branch(request.body))
        /\ (\A k \in 1..i : Commits[k].t = "obj" /\ Commits[k].author # Bad)
              => Len(deliveries') = i
      ]_vars

C18_Witness ==
    /\ Responded
    /\ Verified
    /\ CredentialsPresent
    /\ Commits = <<CommitA, CommitB>>
    /\ Len(deliveries) = 2
    /\ deliveries[1].text.message = CommitA.message
    /\ deliveries[2].text.message = CommitB.message
    /\ deliveries[1].posts = 1

\* C19: verify_github_signature returns a boolean for every header value, so
\* a request whose header is present and does not match is answered 403 and
\* never 500.
C19_VerifyReturnsBoolean ==
    (verifyCalls > 0)
        => /\ verify_github_signature(request.body, request.sig) \in {"True", "False"}
           /\ (Responded /\ ~SignatureMatches) => response.code = 403

\* C20: the empty-payload check precedes event classification: a verified
\* request whose body parses to a falsy value is answered 200 'ignored' with
\* the reason 'Empty payload' for every event type, the event-type header is
\* never read, and no delivery call is made.
C20_EmptyPayloadBeforeClassification ==
    (Responded /\ Verified /\ FalsyBody)
        => /\ response.code = 200
           /\ response.status = "ignored"
           /\ response.reason = <<"Empty payload">>
           /\ ~eventRead
           /\ results = <<>>
           /\ deliveries = <<>>

C20_Witness ==
    /\ Responded
    /\ Verified
    /\ CredentialsPresent
    /\ request.event = "push"
    /\ request.body = [t |-> "obj", top |-> NoTop, commits |-> NoCommits]
    /\ response.reason = <<"Empty payload">>

\* C16: every request that github_webhook is called for is answered, whatever
\* the payload and whatever the messaging endpoint does; the response is
\* written once; a call the endpoint never answers ends in the timeout, is
\* recorded 'failed' for its commit, and leaves the handler in its loop.
C16_EveryRequestIsAnswered ==
    /\ (pc = "received") ~> (pc = "responded")
    /\ [][/\ response' # response =>
                \/ response = NoResponse /\ pc # "responded" /\ pc' = "responded"
                \/ pc = "responded" /\ pc' = "idle" /\ response' = NoResponse
          /\ (pc = "loop" /\ endpoint = "silent" /\ Len(deliveries') > Len(deliveries)) =>
                /\ deliveries'[Len(deliveries')].posts > 0
                      => deliveries'[Len(deliveries')].net = "timeout"
                /\ results'[Len(results')].status = "failed"
                /\ pc' = "loop"
         ]_vars

C16_Witness ==
    /\ Responded
    /\ Verified
    /\ Len(Commits) = 2
    /\ Len(deliveries) = 2
    /\ deliveries[1].net = "timeout"
    /\ deliveries[2].net = "ok"
    /\ response.code = 200
    /\ response.results[1].status = "failed"
    /\ response.results[2].status = "sent"

\* C13: with a configured secret, verify_github_signature returns true for
\* a body and the header 'sha256=' + HMAC-SHA256(secret, body), and returns
\* false once a single byte of the body or of the header has been changed.
C13_SignedVerifiesChangedDoesNot ==
    (probe.path = "verify" /\ probe.result # "")
        => /\ probe.changed = "none" => probe.result = "True"
           /\ probe.changed # "none" => probe.result = "False"

\* C15: the responses of GET / and GET /health depend only on which of the
\* bot token, chat identifier and webhook secret are present: two
\* configurations that agree on that get the same response from each
\* endpoint, and no configured value appears in a response.
SamePresence(c, d) == \A k \in 1..3 : Truthy(c[k]) <=> Truthy(d[k])

Shown(r) == {r.status, r.service, r.telegram, r.github_webhook}

C15_HealthShowsPresenceOnly ==
    /\ \A j, k \in 1..Len(probe) :
          (probe[j].path = probe[k].path /\ SamePresence(probe[j].config, probe[k].config))
              => probe[j].result = probe[k].result
    /\ \A k \in 1..Len(probe) : \A n \in 1..3 :
          Truthy(probe[k].config[n]) => probe[k].config[n] \notin Shown(probe[k].result)

C15_Witness ==
    /\ Len(probe) = 2
    /\ probe[1].path = "/health"
    /\ probe[2].path = "/health"
    /\ \A n \in 1..3 : /\ Truthy(probe[1].config[n])
                       /\ Truthy(probe[2].config[n])
                       /\ probe[1].config[n] # probe[2].config[n]
    /\ probe[2].result.telegram = "true"
    /\ probe[2].result.github_webhook = "true"

\* C17: when two requests are handled at a time, under every interleaving of
\* their steps each handler's results hold only entries for the commits of
\* its own request, with the statuses of its own delivery calls, its response
\* is the one github_webhook gives to its request alone with those delivery
\* outcomes, and the configuration is never written.
AloneResults(h) ==
    [k \in 1..Len(h.deliveries) |->
        [commit_id |-> h.request.body.commits.items[k].id,
         status |-> IF h.deliveries[k].ret THEN "sent" ELSE "failed"]]

AloneResponse(h) ==
    IF h.request.sig.t = Absent THEN abort(400, "Missing signature header")
    ELSE IF h.request.body = AltBody THEN ignored(<<"Empty payload">>)
    ELSE IF h.request.event = "ping" THEN [NoResponse EXCEPT !.code = 200, !.status = "pong"]
    ELSE [NoResponse EXCEPT !.code = 200, !.status = "processed", !.repo = "repo",
                            !.branch = branch(h.request.body),
                            !.results = AloneResults(h)]

Alone(h) ==
    /\ Len(h.deliveries) = Len(h.results)
    /\ Len(h.results) <= Len(h.request.body.commits.items)
    /\ h.results = AloneResults(h)
    /\ h.pc = "responded" =>
          /\ h.response = AloneResponse(h)
          /\ h.response.status = "processed"
                => Len(h.results) = Len(h.request.body.commits.items)

C17_HandlersDoNotInterfere ==
    /\ [](Alone(handler_locals) /\ Alone(parked))
    /\ [][config' = config]_vars

C17_Witness ==
    /\ pc = "loop"
    /\ parked.pc = "loop"
    /\ Commits = <<CommitA, CommitB>>
    /\ results = <<[commit_id |-> "a", status |-> "sent"]>>
    /\ parked.request.body.commits.items = <<CommitB>>
    /\ parked.results = <<[commit_id |-> "b", status |-> "failed"]>>
    /\ parked.deliveries[1].net = "timeout"

====
